---- MODULE Spec2Model ----
(***************************************************************************)
(* sharepic-api: the photo metadata and engagement store.                  *)
(*                                                                         *)
(* The model follows src/index.js (the current server) and, for the rating *)
(* summary, the earlier variant kept in src/unnamed/part_002.              *)
(*                                                                         *)
(* Representation.                                                         *)
(*   - A JavaScript string is a sequence of one-character strings.         *)
(*   - A string-or-absent request field is such a sequence, or Undefined.  *)
(*   - A JSON value of any type (the rating value) is a record tagged by   *)
(*     its type in field t.                                                *)
(*   - A JavaScript number is a record [fin, num, den]: fin = FALSE is    *)
(*     NaN, and a finite number is the fraction num/den in lowest terms    *)
(*     (den > 0), so that 2.5 is [num |-> 5, den |-> 2].                   *)
(***************************************************************************)
EXTENDS Integers, Sequences, FiniteSets, TLC

VARIABLES
    env,        \* process.env settings and what the Cosmos account answers
    now,        \* the server clock, new Date()
    nextId,     \* the uuidv4() values handed out so far
    calls,      \* the requests being handled concurrently, in order of arrival
    blobs,      \* the names of the blobs uploaded to object storage
    photos,     \* the documents of the photos container
    comments,   \* the documents of the comments container
    ratings,    \* the documents of the ratings container (src/index.js)
    ratingsV2,  \* the documents of the ratings container (part_002 variant)
    accepted,   \* history: the last value each (photoId, author) had accepted
    req,        \* the request being answered
    res         \* the response sent for it

vars == <<env, calls, now, nextId, blobs, photos, comments, ratings, ratingsV2, accepted, req, res>>

(***************************************************************************)
(* Bounds of the model                                                     *)
(***************************************************************************)

\* the clock values a run passes through
MaxTime == 1

\* the rating documents a run stores
MaxRatings == 2

\* the comment documents a run stores
MaxComments == 2

\* the photo documents a run stores
MaxPhotos == 1

\* the requests handled concurrently in a run
MaxCalls == 2

\* the length of the people strings tried exhaustively
MaxPeopleLen == 2

\* the length of what surrounds the filler of a long author name
MaxAffix == 2

(***************************************************************************)
(* Strings                                                                 *)
(***************************************************************************)

\* req.body.<field> when the field is not sent
Undefined == <<"<undefined>">>

\* the characters String.prototype.trim() strips and the regex class \s matches
WhiteSpace == {" ", "\t"}

LowerLetters == <<"a","b","c","d","e","f","g","h","i","j","k","l","m",
                  "n","o","p","q","r","s","t","u","v","w","x","y","z">>

UpperLetters == <<"A","B","C","D","E","F","G","H","I","J","K","L","M",
                  "N","O","P","Q","R","S","T","U","V","W","X","Y","Z">>

Lower == {LowerLetters[i] : i \in 1..Len(LowerLetters)}

Upper == {UpperLetters[i] : i \in 1..Len(UpperLetters)}

\* String.prototype.toLowerCase(), which the server never applies
toLowerCase(s) ==
    [i \in 1..Len(s) |->
        IF s[i] \in Upper
        THEN LowerLetters[CHOOSE k \in 1..Len(UpperLetters) : UpperLetters[k] = s[i]]
        ELSE s[i]]

Digits == {"0","1","2","3","4","5","6","7","8","9"}

\* the characters the class [a-zA-Z0-9._-] of ratingDocId keeps
SafeChars == Lower \cup Upper \cup Digits \cup {".", "_", "-"}

RECURSIVE trimStart(_)
trimStart(s) ==
    IF s # <<>> /\ Head(s) \in WhiteSpace THEN trimStart(Tail(s)) ELSE s

RECURSIVE trimEnd(_)
trimEnd(s) ==
    IF s # <<>> /\ s[Len(s)] \in WhiteSpace
    THEN trimEnd(SubSeq(s, 1, Len(s) - 1))
    ELSE s

\* String.prototype.trim()
trim(s) == trimEnd(trimStart(s))

\* s.replace(/\s+/g, " "): every maximal whitespace run becomes one space
RECURSIVE replaceWhitespaceRuns(_)
replaceWhitespaceRuns(s) ==
    IF s = <<>> THEN <<>>
    ELSE IF Head(s) \in WhiteSpace
         THEN <<" ">> \o replaceWhitespaceRuns(trimStart(s))
         ELSE <<Head(s)>> \o replaceWhitespaceRuns(Tail(s))

\* s.slice(0, n)
slice(s, n) == SubSeq(s, 1, IF Len(s) < n THEN Len(s) ELSE n)

\* s.replace(/[^a-zA-Z0-9._-]/g, "_")
replaceUnsafe(s) == [i \in 1..Len(s) |-> IF s[i] \in SafeChars THEN s[i] ELSE "_"]

\* the length cap of normalizeAuthor
AuthorCap == 40

Anonymous == <<"a","n","o","n","y","m","o","u","s">>

\* String(author || "anonymous"): an absent or empty author is falsy
authorOrDefault(author) ==
    IF author = Undefined \/ author = <<>> THEN Anonymous ELSE author

\* mutant: the whitespace runs inside the name are kept as sent
normalizeAuthorUncollapsed(author) ==
    LET r == slice(trim(authorOrDefault(author)), AuthorCap)
    IN  IF r = <<>> THEN Anonymous ELSE r

\* mutant: a name that trims to nothing is stored as the empty string
normalizeAuthorNoFallback(author) ==
    slice(replaceWhitespaceRuns(trim(authorOrDefault(author))), AuthorCap)

\* mutant: the name is case-folded
normalizeAuthorFolded(author) ==
    LET a == trim(authorOrDefault(author))
        r == slice(replaceWhitespaceRuns(toLowerCase(a)), AuthorCap)
    IN  IF r = <<>> THEN Anonymous ELSE r

normalizeAuthor(author) ==
    LET a == trim(authorOrDefault(author))
        r == slice(replaceWhitespaceRuns(a), AuthorCap)
    IN  IF r = <<>> THEN Anonymous ELSE r

\* `${photoId}::${safeAuthor}`
ratingDocId(photoId, author) ==
    LET safeAuthor == replaceUnsafe(normalizeAuthor(author))
    IN  <<photoId, "::", safeAuthor>>

(***************************************************************************)
(* Numbers and JSON values                                                 *)
(***************************************************************************)

RECURSIVE GCD(_, _)
GCD(a, b) == IF b = 0 THEN a ELSE GCD(b, a % b)

Abs(n) == IF n < 0 THEN -n ELSE n

\* the finite number n/d, d > 0
Frac(n, d) ==
    LET g == GCD(Abs(n), d)
    IN  [fin |-> TRUE, num |-> n \div g, den |-> d \div g]

Num(n) == Frac(n, 1)

NaN == [fin |-> FALSE, num |-> 0, den |-> 1]

\* Number.isFinite(v)
isFinite(v) == v.fin

\* mutant: any finite number passes, as in the check of part_002
isIntegerLoose(v) == v.fin

\* Number.isInteger(v)
isInteger(v) == v.fin /\ v.den = 1

\* a < b and a > b: false whenever an operand is NaN
Less(a, b) == a.fin /\ b.fin /\ a.num * b.den < b.num * a.den

Greater(a, b) == Less(b, a)

\* a <= b and a >= b
LessEq(a, b) == a.fin /\ b.fin /\ a.num * b.den <= b.num * a.den

GreaterEq(a, b) == LessEq(b, a)

\* a + b
Plus(a, b) ==
    IF a.fin /\ b.fin THEN Frac(a.num * b.den + b.num * a.den, a.den * b.den) ELSE NaN

\* a / b for b > 0
Divide(a, b) ==
    IF a.fin /\ b.fin /\ b.num > 0 THEN Frac(a.num * b.den, a.den * b.num) ELSE NaN

\* Math.round(v): the nearest integer, a tie going up
round(v) == IF v.fin THEN Num((2 * v.num + v.den) \div (2 * v.den)) ELSE NaN

\* Math.max(a, b) and Math.min(a, b) of finite numbers
max(a, b) == IF Less(a, b) THEN b ELSE a

min(a, b) == IF Less(b, a) THEN b ELSE a

JNumber(v) == [t |-> "number", v |-> v]

JString(s) == [t |-> "string", s |-> s]

JBoolean(b) == [t |-> "boolean", b |-> b]

JNull == [t |-> "null"]

JUndefined == [t |-> "undefined"]

DigitValue(c) ==
    CASE c = "0" -> 0 [] c = "1" -> 1 [] c = "2" -> 2 [] c = "3" -> 3 [] c = "4" -> 4
      [] c = "5" -> 5 [] c = "6" -> 6 [] c = "7" -> 7 [] c = "8" -> 8 [] c = "9" -> 9

isDigits(s) == \A i \in 1..Len(s) : s[i] \in Digits

RECURSIVE DecimalValue(_)
DecimalValue(s) ==
    IF s = <<>> THEN 0
    ELSE 10 * DecimalValue(SubSeq(s, 1, Len(s) - 1)) + DigitValue(s[Len(s)])

RECURSIVE PowerOfTen(_)
PowerOfTen(n) == IF n = 0 THEN 1 ELSE 10 * PowerOfTen(n - 1)

\* Number(s) of a string: surrounding whitespace is ignored, the empty string is 0,
\* an unsigned decimal literal (digits, with an optional fraction) is its value and
\* anything else over the characters modelled is NaN
StringToNumber(s) ==
    LET t == trim(s)
        dots == {i \in 1..Len(t) : t[i] = "."}
    IN  IF t = <<>> THEN Num(0)
        ELSE IF isDigits(t) THEN Num(DecimalValue(t))
        ELSE IF Cardinality(dots) = 1
             THEN LET k == CHOOSE i \in dots : TRUE
                      intPart == SubSeq(t, 1, k - 1)
                      fracPart == SubSeq(t, k + 1, Len(t))
                  IN  IF isDigits(intPart) /\ isDigits(fracPart) /\ Len(t) > 1
                      THEN Frac(DecimalValue(intPart) * PowerOfTen(Len(fracPart))
                                  + DecimalValue(fracPart),
                                PowerOfTen(Len(fracPart)))
                      ELSE NaN
             ELSE NaN

\* Number(x) of a JSON value
Number(x) ==
    CASE x.t = "number" -> x.v
      [] x.t = "string" -> StringToNumber(x.s)
      [] x.t = "boolean" -> IF x.b THEN Num(1) ELSE Num(0)
      [] x.t = "null" -> Num(0)
      [] x.t = "undefined" -> NaN

(***************************************************************************)
(* Configuration (src/index.js)                                            *)
(***************************************************************************)

\* process.env with everything set, and a Cosmos account that answers every read
EnvOk ==
    [COSMOS_ENDPOINT |-> "endpoint", COSMOS_KEY |-> "key", COSMOS_DB_NAME |-> "db",
     COSMOS_CONTAINER |-> "photos", COSMOS_COMMENT_CONTAINER |-> "comments",
     COSMOS_RATINGS_CONTAINER |-> "ratings",
     dbRead |-> TRUE, photosRead |-> TRUE, commentsRead |-> TRUE, ratingsRead |-> TRUE,
     AZURE_STORAGE_CONNECTION_STRING |-> "conn", BLOB_CONTAINER_NAME |-> "images",
     PHOTOS_CONTAINER |-> "", blobContainerExists |-> TRUE, blobUpload |-> TRUE]

EnvVars == {"COSMOS_ENDPOINT", "COSMOS_KEY", "COSMOS_DB_NAME", "COSMOS_CONTAINER",
            "COSMOS_COMMENT_CONTAINER", "COSMOS_RATINGS_CONTAINER",
            "AZURE_STORAGE_CONNECTION_STRING", "BLOB_CONTAINER_NAME"}

Reads == {"dbRead", "photosRead", "commentsRead", "ratingsRead",
          "blobContainerExists", "blobUpload"}

\* the settings the model starts from: all well, one variable unset (""), or one
\* read refused
Envs ==
    {EnvOk} \cup {[EnvOk EXCEPT ![k] = ""] : k \in EnvVars}
            \cup {[EnvOk EXCEPT ![k] = FALSE] : k \in Reads}

getBlobConnectionString(e) == e.AZURE_STORAGE_CONNECTION_STRING

\* process.env.BLOB_CONTAINER_NAME || process.env.PHOTOS_CONTAINER
getBlobContainerName(e) ==
    IF e.BLOB_CONTAINER_NAME # "" THEN e.BLOB_CONTAINER_NAME ELSE e.PHOTOS_CONTAINER

getCosmosConfig(e) ==
    [endpoint |-> e.COSMOS_ENDPOINT, key |-> e.COSMOS_KEY, dbName |-> e.COSMOS_DB_NAME,
     photosContainerName |-> e.COSMOS_CONTAINER,
     commentsContainerName |-> e.COSMOS_COMMENT_CONTAINER,
     ratingsContainerName |-> e.COSMOS_RATINGS_CONTAINER]

\* the message of the Error thrown, or <<"OK">> when the containers are returned
verifyAndGetCosmosContainers(e) ==
    LET cfg == getCosmosConfig(e)
    IN  IF cfg.endpoint = "" \/ cfg.key = "" \/ cfg.dbName = ""
        THEN <<"Cosmos missing: COSMOS_ENDPOINT / COSMOS_KEY / COSMOS_DB_NAME">>
        ELSE IF cfg.photosContainerName = ""
        THEN <<"Cosmos missing: COSMOS_CONTAINER (expected 'photos')">>
        ELSE IF cfg.commentsContainerName = ""
        THEN <<"Cosmos missing: COSMOS_COMMENT_CONTAINER (expected 'comments')">>
        ELSE IF cfg.ratingsContainerName = ""
        THEN <<"Cosmos missing: COSMOS_RATINGS_CONTAINER (expected 'ratings')">>
        ELSE IF ~e.dbRead
        THEN <<"Cosmos database '", cfg.dbName, "' not found. Check COSMOS_DB_NAME">>
        ELSE IF ~e.photosRead
        THEN <<"Cosmos container '", cfg.photosContainerName, "' not found in DB '", cfg.dbName, "'.">>
        ELSE IF ~e.commentsRead
        THEN <<"Cosmos container '", cfg.commentsContainerName, "' not found in DB '", cfg.dbName, "'.">>
        ELSE IF ~e.ratingsRead
        THEN <<"Cosmos container '", cfg.ratingsContainerName, "' not found in DB '", cfg.dbName, "'.">>
        ELSE <<"OK">>

(***************************************************************************)
(* The document store                                                      *)
(***************************************************************************)

\* mutant: a document is only created for a photo that is stored
createForKnownPhoto(items, doc) ==
    IF "photoId" \in DOMAIN doc /\ ~(\E p \in photos : p.id = doc.photoId)
    THEN items ELSE items \cup {doc}

\* mutant: the new document takes the place of those created at the same time
createOverwriting(items, doc) ==
    {d \in items : d.createdAt # doc.createdAt} \cup {doc}

\* container.items.create(doc): a new document
create(items, doc) == items \cup {doc}

\* mutant: the document is added beside the one of the same partition and id
upsertKeepingOld(items, doc) == items \cup {doc}

\* mutant: the write is lost
upsertDropped(items, doc) == items

\* container.items.upsert(doc): replaces the document of the same partition and id
upsert(items, doc) ==
    {d \in items : ~(d.photoId = doc.photoId /\ d.id = doc.id)} \cup {doc}

\* the documents a query WHERE c.photoId = @photoId selects
wherePhotoId(items, photoId) == {d \in items : d.photoId = photoId}

\* fetchAll(): the selected documents in the order the store returns them
RECURSIVE fetchAll(_)
fetchAll(selected) ==
    IF selected = {} THEN <<>>
    ELSE LET d == CHOOSE x \in selected : TRUE
         IN  <<d>> \o fetchAll(selected \ {d})

(***************************************************************************)
(* Rating summary (src/index.js)                                           *)
(***************************************************************************)

\* (resources || []).map(r => Number(r.value)).filter(v => Number.isFinite(v))
finiteValues(resources) ==
    SelectSeq([i \in 1..Len(resources) |-> Number(resources[i].value)], isFinite)

\* values.reduce((a, b) => a + b, 0)
RECURSIVE sumOf(_)
sumOf(values) ==
    IF values = <<>> THEN Num(0)
    ELSE Plus(sumOf(SubSeq(values, 1, Len(values) - 1)), values[Len(values)])

\* mutant: the mean is taken without looking at the count
averageOfUnguarded(values) ==
    IF Len(values) # 0 THEN Divide(sumOf(values), Num(Len(values))) ELSE NaN

\* count ? (sum / count) : 0
averageOf(values) ==
    LET count == Len(values)
        sum == sumOf(values)
    IN  IF count # 0 THEN Divide(sum, Num(count)) ELSE Num(0)

\* Math.max(1, Math.min(5, Math.round(v)))
bucketOf(v) == max(Num(1), min(Num(5), round(v)))

\* dist = { 1: 0, ..., 5: 0 }; values.forEach(v => dist[vv] = (dist[vv] || 0) + 1)
RECURSIVE distributionOf(_)
distributionOf(values) ==
    IF values = <<>> THEN [k \in {Num(i) : i \in 1..5} |-> Num(0)]
    ELSE LET dist == distributionOf(SubSeq(values, 1, Len(values) - 1))
             vv == bucketOf(values[Len(values)])
             old == IF vv \in DOMAIN dist /\ dist[vv] # Num(0) THEN dist[vv] ELSE Num(0)
         IN  [k \in DOMAIN dist \cup {vv} |-> IF k = vv THEN Plus(old, Num(1)) ELSE dist[k]]

(***************************************************************************)
(* Ratings (src/index.js)                                                  *)
(***************************************************************************)

\* res.status(500).json({ message: err.message })
serverError(message) == [status |-> 500, message |-> message]

\* the history of accepted ratings, the last one per photo and stored author
remember(log, photoId, author, value) ==
    {a \in log : ~(a.photoId = photoId /\ a.author = author)}
        \cup {[photoId |-> photoId, author |-> author, value |-> value]}

\* app.get("/api/photos/:photoId/ratings")
GetRatings(photoId) ==
    LET verified == verifyAndGetCosmosContainers(env)
        resources == fetchAll(wherePhotoId(ratings, photoId))
        values == finiteValues(resources)
        count == Len(values)
        average == averageOf(values)
        dist == distributionOf(values)
    IN  /\ req' = [op |-> "GET ratings", photoId |-> photoId]
        /\ res' = IF verified # <<"OK">> THEN serverError(verified)
                  ELSE [status |-> 200, photoId |-> photoId, average |-> average,
                        count |-> count, distribution |-> dist]
        /\ UNCHANGED <<env, calls, now, nextId, blobs, photos, comments, ratings, ratingsV2, accepted>>

\* app.post("/api/photos/:photoId/ratings")
PostRatings(photoId, bodyAuthor, bodyValue) ==
    LET verified == verifyAndGetCosmosContainers(env)
        author == normalizeAuthor(bodyAuthor)
        value == Number(bodyValue)
        doc == [id |-> ratingDocId(photoId, author), photoId |-> photoId,
                author |-> author, value |-> JNumber(value), createdAt |-> now]
        stored == upsert(ratings, doc)
        resources == fetchAll(wherePhotoId(stored, photoId))
        values == finiteValues(resources)
        count == Len(values)
        average == averageOf(values)
    IN  /\ req' = [op |-> "POST ratings", photoId |-> photoId,
                   author |-> bodyAuthor, value |-> bodyValue]
        /\ IF verified # <<"OK">>
           THEN /\ res' = serverError(verified)
                /\ UNCHANGED <<ratings, accepted>>
           ELSE IF ~isInteger(value) \/ Less(value, Num(1)) \/ Greater(value, Num(5))
           THEN /\ res' = [status |-> 400,
                           message |-> <<"Rating value must be an integer 1-5.">>]
                /\ UNCHANGED <<ratings, accepted>>
           ELSE /\ ratings' = stored
                /\ accepted' = remember(accepted, photoId, author, value)
                /\ res' = [status |-> 201, message |-> <<"Rating saved">>,
                           photoId |-> photoId, average |-> average, count |-> count]
        /\ UNCHANGED <<env, calls, now, nextId, blobs, photos, comments, ratingsV2>>

(***************************************************************************)
(* Photos (src/index.js)                                                   *)
(***************************************************************************)

\* (req.body.<field> || "").trim()
trimmedField(field) == trim(IF field = Undefined THEN <<>> ELSE field)

\* s.split(","): the pieces between the commas, empty ones included
RECURSIVE split(_)
split(s) ==
    IF \A i \in 1..Len(s) : s[i] # "," THEN <<s>>
    ELSE LET k == CHOOSE i \in 1..Len(s) : s[i] = "," /\ \A j \in 1..(i - 1) : s[j] # ","
         IN  <<SubSeq(s, 1, k - 1)>> \o split(SubSeq(s, k + 1, Len(s)))

\* .map((s) => s.trim())
mapTrim(pieces) == [i \in 1..Len(pieces) |-> trim(pieces[i])]

\* Boolean(s) of a string: the empty string is falsy
isTruthy(s) == s # <<>>

\* mutant: the empty names are kept
peopleOfUnfiltered(bodyPeople) ==
    IF trimmedField(bodyPeople) # <<>> THEN mapTrim(split(bodyPeople)) ELSE <<>>

\* mutant: the names are kept as they stand between the commas
peopleOfUntrimmed(bodyPeople) ==
    IF trimmedField(bodyPeople) # <<>> THEN SelectSeq(split(bodyPeople), isTruthy) ELSE <<>>

\* ((req.body.people || "").trim())
\*   ? req.body.people.split(",").map((s) => s.trim()).filter(Boolean) : []
peopleOf(bodyPeople) ==
    IF trimmedField(bodyPeople) # <<>>
    THEN SelectSeq(mapTrim(split(bodyPeople)), isTruthy)
    ELSE <<>>

\* a sequence of the selected documents, newest first: ORDER BY c.createdAt DESC
orderByCreatedAtDesc(selected) ==
    CHOOSE q \in [1..Cardinality(selected) -> selected] :
        /\ \A d \in selected : \E i \in DOMAIN q : q[i] = d
        /\ \A i \in DOMAIN q, j \in DOMAIN q : i < j => q[i].createdAt >= q[j].createdAt

\* app.get("/api/photos")
GetPhotos ==
    LET verified == verifyAndGetCosmosContainers(env)
    IN  /\ req' = [op |-> "GET photos"]
        /\ res' = IF verified # <<"OK">> THEN serverError(verified)
                  ELSE [status |-> 200, resources |-> orderByCreatedAtDesc(photos)]
        /\ UNCHANGED <<env, calls, now, nextId, blobs, photos, comments, ratings, ratingsV2, accepted>>

\* app.post("/api/photos", upload.single("image")); file is req.file, or Undefined
PostPhotos(file, body) ==
    LET conn == getBlobConnectionString(env)
        containerName == getBlobContainerName(env)
        blobName == <<nextId, "-", replaceUnsafe(file)>>
        verified == verifyAndGetCosmosContainers(env)
        photoDoc == [id |-> nextId + 1, imageUrl |-> <<containerName, "/", blobName>>,
                     blobName |-> blobName,
                     title |-> trimmedField(body.title),
                     caption |-> trimmedField(body.caption),
                     location |-> trimmedField(body.location),
                     people |-> peopleOf(body.people),
                     createdAt |-> now]
    IN  /\ req' = [op |-> "POST photos", file |-> file, title |-> body.title,
                   caption |-> body.caption, location |-> body.location,
                   people |-> body.people]
        /\ IF file = Undefined
           THEN /\ res' = [status |-> 400, message |-> <<"No image received. Frontend must send FormData field name 'image'.">>]
                /\ UNCHANGED <<blobs, photos, nextId>>
           ELSE IF conn = ""
           THEN /\ res' = serverError(<<"AZURE_STORAGE_CONNECTION_STRING missing in App Service settings.">>)
                /\ UNCHANGED <<blobs, photos, nextId>>
           ELSE IF containerName = ""
           THEN /\ res' = serverError(<<"Blob container missing. Set BLOB_CONTAINER_NAME (recommended).">>)
                /\ UNCHANGED <<blobs, photos, nextId>>
           ELSE IF ~env.blobContainerExists
           THEN /\ res' = serverError(<<"Blob container '", containerName, "' does not exist or cannot be accessed.">>)
                /\ UNCHANGED <<blobs, photos, nextId>>
           ELSE IF ~env.blobUpload
           THEN /\ res' = serverError(<<"Upload failed">>)
                /\ nextId' = nextId + 1
                /\ UNCHANGED <<blobs, photos>>
           ELSE IF verified # <<"OK">>
           THEN /\ res' = serverError(verified)
                /\ blobs' = blobs \cup {blobName}
                /\ nextId' = nextId + 1
                /\ UNCHANGED photos
           ELSE /\ blobs' = blobs \cup {blobName}
                /\ photos' = create(photos, photoDoc)
                /\ nextId' = nextId + 2
                /\ res' = [status |-> 201, message |-> <<"Upload successful">>,
                           photo |-> photoDoc]
        /\ UNCHANGED <<env, calls, now, comments, ratings, ratingsV2, accepted>>

(***************************************************************************)
(* Comments (src/index.js)                                                 *)
(***************************************************************************)

\* mutant: the text is stored as sent
commentTextUntrimmed(bodyText) ==
    IF bodyText = Undefined \/ bodyText = <<>> THEN <<>> ELSE bodyText

\* (req.body.text || "").trim()
commentText(bodyText) ==
    trim(IF bodyText = Undefined \/ bodyText = <<>> THEN <<>> ELSE bodyText)

\* app.get("/api/photos/:photoId/comments")
GetComments(photoId) ==
    LET verified == verifyAndGetCosmosContainers(env)
        resources == orderByCreatedAtDesc(wherePhotoId(comments, photoId))
    IN  /\ req' = [op |-> "GET comments", photoId |-> photoId]
        /\ res' = IF verified # <<"OK">> THEN serverError(verified)
                  ELSE [status |-> 200, resources |-> resources]
        /\ UNCHANGED <<env, calls, now, nextId, blobs, photos, comments, ratings, ratingsV2, accepted>>

\* app.post("/api/photos/:photoId/comments")
PostComments(photoId, bodyAuthor, bodyText) ==
    LET verified == verifyAndGetCosmosContainers(env)
        text == commentText(bodyText)
        author == normalizeAuthor(bodyAuthor)
        commentDoc == [id |-> nextId, photoId |-> photoId, author |-> author,
                       text |-> text, createdAt |-> now]
    IN  /\ req' = [op |-> "POST comments", photoId |-> photoId,
                   author |-> bodyAuthor, text |-> bodyText]
        /\ IF verified # <<"OK">>
           THEN /\ res' = serverError(verified)
                /\ UNCHANGED <<comments, nextId>>
           ELSE IF text = <<>>
           THEN /\ res' = [status |-> 400, message |-> <<"Comment text is required.">>]
                /\ UNCHANGED <<comments, nextId>>
           ELSE /\ comments' = create(comments, commentDoc)
                /\ nextId' = nextId + 1
                /\ res' = [status |-> 201, message |-> <<"Comment added">>,
                           comment |-> commentDoc]
        /\ UNCHANGED <<env, calls, now, blobs, photos, ratings, ratingsV2, accepted>>

(***************************************************************************)
(* Ratings, the variant of src/unnamed/part_002                            *)
(***************************************************************************)

\* getCosmos(): throws unless COSMOS_ENDPOINT, COSMOS_KEY and COSMOS_DB_NAME are set
getCosmos(e) ==
    IF e.COSMOS_ENDPOINT = "" \/ e.COSMOS_KEY = "" \/ e.COSMOS_DB_NAME = ""
    THEN <<"Cosmos env vars not configured (COSMOS_ENDPOINT/COSMOS_KEY/COSMOS_DB_NAME).">>
    ELSE <<"OK">>

\* an operation on the ratings container throws when the store does not answer
ratingsReachable(e) == e.dbRead /\ e.ratingsRead

\* for (const v of values) { if (v >= 1 && v <= 5) distribution[v] += 1; ... }:
\* a key the object does not have is created holding undefined + 1, which is NaN
RECURSIVE distributionV2(_)
distributionV2(values) ==
    IF values = <<>> THEN [k \in {Num(i) : i \in 1..5} |-> Num(0)]
    ELSE LET dist == distributionV2(SubSeq(values, 1, Len(values) - 1))
             v == values[Len(values)]
         IN  IF GreaterEq(v, Num(1)) /\ LessEq(v, Num(5))
             THEN [k \in DOMAIN dist \cup {v} |->
                     IF k # v THEN dist[k]
                     ELSE IF v \in DOMAIN dist THEN Plus(dist[v], Num(1)) ELSE NaN]
             ELSE dist

\* app.post("/api/photos/:photoId/ratings") of part_002
PostRatingsV2(photoId, bodyAuthor, bodyValue) ==
    LET author == trim(authorOrDefault(bodyAuthor))
        value == Number(bodyValue)
        doc == [id |-> nextId, photoId |-> photoId, author |-> author,
                value |-> JNumber(value), createdAt |-> now]
    IN  /\ req' = [op |-> "POST ratings (part_002)", photoId |-> photoId,
                   author |-> bodyAuthor, value |-> bodyValue]
        /\ IF getCosmos(env) # <<"OK">>
           THEN /\ res' = serverError(<<"Failed to save rating">>)
                /\ UNCHANGED <<ratingsV2, nextId>>
           ELSE IF ~isFinite(value) \/ Less(value, Num(1)) \/ Greater(value, Num(5))
           THEN /\ res' = [status |-> 400, message |-> <<"Rating value must be 1-5">>]
                /\ UNCHANGED <<ratingsV2, nextId>>
           ELSE IF ~ratingsReachable(env)
           THEN /\ res' = serverError(<<"Failed to save rating">>)
                /\ UNCHANGED <<ratingsV2, nextId>>
           ELSE /\ ratingsV2' = create(ratingsV2, doc)
                /\ nextId' = nextId + 1
                /\ res' = [status |-> 200, ok |-> TRUE, rating |-> doc]
        /\ UNCHANGED <<env, calls, now, blobs, photos, comments, ratings, accepted>>

\* app.get("/api/photos/:photoId/ratings") of part_002
GetRatingsV2(photoId) ==
    LET resources == fetchAll(wherePhotoId(ratingsV2, photoId))
        values == finiteValues(resources)
        distribution == distributionV2(values)
        sum == sumOf(values)
        count == Len(values)
        average == IF count # 0 THEN Divide(sum, Num(count)) ELSE Num(0)
    IN  /\ req' = [op |-> "GET ratings (part_002)", photoId |-> photoId]
        /\ res' = IF getCosmos(env) # <<"OK">> \/ ~ratingsReachable(env)
                  THEN serverError(<<"Failed to fetch ratings">>)
                  ELSE [status |-> 200, photoId |-> photoId, average |-> average,
                        count |-> count, distribution |-> distribution]
        /\ UNCHANGED <<env, calls, now, nextId, blobs, photos, comments, ratings, ratingsV2, accepted>>

\* a rating document written into the container from outside the server (a direct
\* data edit), which no validation has seen
EditRating(photoId, author, value) ==
    /\ ratings' = upsert(ratings, [id |-> <<photoId, "::", author>>, photoId |-> photoId,
                                   author |-> author, value |-> value, createdAt |-> now])
    /\ req' = [op |-> "none"]
    /\ res' = [status |-> 0]
    /\ UNCHANGED <<env, calls, now, nextId, blobs, photos, comments, ratingsV2, accepted>>

\* time passes between two requests
Tick ==
    /\ now < MaxTime
    /\ now' = now + 1
    /\ UNCHANGED <<env, calls, nextId, blobs, photos, comments, ratings, ratingsV2, accepted, req, res>>

Init ==
    /\ env \in Envs
    /\ calls = <<>>
    /\ now = 0
    /\ nextId = 1
    /\ blobs = {}
    /\ photos = {}
    /\ comments = {}
    /\ ratings = {}
    /\ ratingsV2 = {}
    /\ accepted = {}
    /\ req = [op |-> "none"]
    /\ res = [status |-> 0]

(***************************************************************************)
(* Spec: the rating endpoints of src/index.js                              *)
(***************************************************************************)

PhotoIds == {"p1", "p2"}

\* authors sent with a rating: absent, blank, case and whitespace variants, and
\* two names that differ in a character outside [a-zA-Z0-9._-]
RatingAuthors ==
    {<<"a">>, <<"A">>, <<" ", "a", "\t">>,
     <<"a", " ", "b">>, <<"a", " ", "\t", "b">>, <<"a", "_", "b">>}

\* values sent with a rating, of every JSON type
RatingValues == {JNumber(Num(3)), JNumber(Num(5))}

Rate ==
    \E p \in PhotoIds, a \in RatingAuthors, v \in RatingValues :
        /\ PostRatings(p, a, v)
        /\ Cardinality(ratings') <= MaxRatings

Summarize == \E p \in PhotoIds : GetRatings(p)

Next == Rate \/ Summarize

Spec == Init /\ [][Next]_vars

(***************************************************************************)
(* Claims checked under Spec                                               *)
(***************************************************************************)

\* the words of a name: its maximal runs of non-whitespace characters, in order
WordStarts(s) ==
    {i \in 1..Len(s) : s[i] \notin WhiteSpace /\ (i = 1 \/ s[i - 1] \in WhiteSpace)}

WordEnd(s, i) ==
    CHOOSE j \in i..Len(s) :
        /\ \A k \in i..j : s[k] \notin WhiteSpace
        /\ (j = Len(s) \/ s[j + 1] \in WhiteSpace)

Words(s) == {<<Cardinality({k \in WordStarts(s) : k <= i}), SubSeq(s, i, WordEnd(s, i))>> :
                i \in WordStarts(s)}

\* two names differ at most in leading, trailing or repeated whitespace
SameWords(a, b) == Words(a) = Words(b)

\* C1: the ratings container never holds two documents of the same photo whose
\* authors are the same name up to leading, trailing or repeated whitespace: at
\* most one rating document per (photoId, normalized author).
C1_OneRatingPerAuthor ==
    \A d1 \in ratings, d2 \in ratings :
        (d1.photoId = d2.photoId /\ SameWords(d1.author, d2.author)) => d1 = d2

\* C1 witness: a whitespace variant of a stored author was accepted for the same
\* photo, another photo has a rating by the same author, and each has one document
C1_Witness ==
    /\ req.op = "POST ratings" /\ res.status = 201
    /\ req.author = <<"a", " ", "\t", "b">>
    /\ res.count = 1
    /\ \E d1 \in ratings, d2 \in ratings :
          /\ d1.photoId # d2.photoId
          /\ d1.author = <<"a", " ", "b">> /\ d2.author = <<"a", " ", "b">>
          /\ d1.photoId = req.photoId /\ d1.value = JNumber(Num(5))
          /\ \E a \in accepted : a.photoId = req.photoId /\ a.author = d1.author

\* C2: the last value an author had accepted for a photo is the value of the one
\* rating document stored for that photo and author, whatever other authors wrote
\* before, between or after.
C2_LastWriteWins ==
    \A a \in accepted :
        LET docs == {d \in ratings : d.photoId = a.photoId /\ d.author = a.author}
        IN  /\ Cardinality(docs) = 1
            /\ \A d \in docs : Number(d.value) = a.value

\* two names of the same length that differ only in letter case
CaseVariant(a, b) == Len(a) = Len(b) /\ a # b /\ toLowerCase(a) = toLowerCase(b)

\* C7: a rating accepted from an author whose name differs only in letter case
\* from the author of a stored rating of the same photo leaves that document as it
\* is and stores a second one; the count returned is at least 2, and exactly 2
\* when the stored rating was the photo's only one.
C7_CaseKeptDistinct ==
    [][\A d \in ratings :
          (/\ req'.op = "POST ratings" /\ res'.status = 201
           /\ d.photoId = req'.photoId
           /\ CaseVariant(d.author, req'.author))
          => /\ d \in ratings'
             /\ \E e \in ratings' :
                   /\ e # d /\ e.photoId = d.photoId /\ e.author # d.author
                   /\ CaseVariant(e.author, d.author)
                   /\ e.value = JNumber(Number(req'.value))
             /\ res'.count >= 2
             /\ (Cardinality(wherePhotoId(ratings, d.photoId)) = 1 => res'.count = 2)]_vars

\* C7 witness: "a" and "A" both have their rating of the same photo and the
\* count returned is 2
C7_Witness ==
    /\ req.op = "POST ratings" /\ res.status = 201 /\ res.count = 2
    /\ req.author = <<"A">>
    /\ \E d \in ratings, e \in ratings :
          /\ d.photoId = req.photoId /\ e.photoId = req.photoId
          /\ d.author = <<"a">> /\ e.author = <<"A">>

(***************************************************************************)
(* SpecValues: ratings of one photo, with values of every JSON type        *)
(***************************************************************************)

ValueAuthors == {<<"a">>, <<"b">>}

SubmittedValues ==
    {JNumber(Num(1)), JNumber(Num(3)), JNumber(Num(5)), JNumber(Num(0)), JNumber(Num(6)),
     JNumber(Num(-2)), JNumber(Frac(5, 2)), JNumber(Frac(1, 2)), JNumber(Frac(11, 2)),
     JString(<<"4">>), JString(<<" ", "2">>), JString(<<"2", ".", "5">>), JString(<<"x">>),
     JString(<<>>), JString(<<"4", "2">>),
     JBoolean(TRUE), JBoolean(FALSE), JNull, JUndefined}

RateValue == \E a \in ValueAuthors, v \in SubmittedValues : PostRatings("p1", a, v)

SummarizeValue == GetRatings("p1")

NextValues == RateValue \/ SummarizeValue \/ Tick

SpecValues == Init /\ [][NextValues]_vars

\* the integers 1..5
OneToFive == {Num(i) : i \in 1..5}

\* C3 as stated: once the configuration is verified, a rating whose submitted value
\* is not itself an integer number in 1..5 is answered 400 and leaves the ratings
\* container as it was, and every stored rating value is an integer in 1..5.
C3_RejectsEveryNonInteger ==
    [][req'.op = "POST ratings" =>
          /\ (/\ verifyAndGetCosmosContainers(env) = <<"OK">>
              /\ ~(req'.value.t = "number" /\ req'.value.v \in OneToFive))
             => (res'.status = 400 /\ ratings' = ratings)
          /\ \A d \in ratings' : d.value.t = "number" /\ d.value.v \in OneToFive]_vars

\* C3 as amended: once the configuration is verified, a rating is answered 400 and
\* leaves the ratings container as it was exactly when Number(value) is not an
\* integer in 1..5; otherwise it is stored with the value Number(value). A failed
\* verification is answered 500 and writes nothing. Every stored rating value is
\* an integer in 1..5.
C3_RejectsByNumericValue ==
    [][req'.op = "POST ratings" =>
          /\ (/\ verifyAndGetCosmosContainers(env) = <<"OK">>
              /\ Number(req'.value) \notin OneToFive)
             => (res'.status = 400 /\ ratings' = ratings)
          /\ (/\ verifyAndGetCosmosContainers(env) = <<"OK">>
              /\ Number(req'.value) \in OneToFive)
             => /\ res'.status = 201
                /\ \E d \in ratings' :
                      /\ d.photoId = req'.photoId
                      /\ d.value = JNumber(Number(req'.value))
          /\ verifyAndGetCosmosContainers(env) # <<"OK">>
             => (res'.status = 500 /\ ratings' = ratings)
          /\ \A d \in ratings' : d.value.t = "number" /\ d.value.v \in OneToFive]_vars

\* C3 witness: with a rating stored, the value 2.5 was refused with 400
C3_Witness ==
    /\ req.op = "POST ratings" /\ req.value = JNumber(Frac(5, 2))
    /\ res.status = 400
    /\ \E d \in ratings : d.author = req.author /\ d.value = JNumber(Num(3))

(***************************************************************************)
(* SpecEngage: comments and ratings with absent and blank fields           *)
(***************************************************************************)

EngageAuthors == {Undefined, <<>>, <<"\t", " ">>, <<" ", "b", " ">>}

EngageTexts == {Undefined, <<>>, <<"\t", " ">>, <<"h", "i">>, <<" ", "h", " ", "i", "\t">>}

EngageValues == {JNumber(Num(3)), JNumber(Num(9))}

Comment ==
    \E a \in EngageAuthors, t \in EngageTexts :
        /\ PostComments("p1", a, t)
        /\ Cardinality(comments') <= MaxComments

ListComments == GetComments("p1")

RateEngage ==
    \E a \in EngageAuthors, v \in EngageValues :
        /\ PostRatings("p1", a, v)
        /\ Cardinality(ratings') <= MaxRatings

NextEngage == Comment \/ ListComments \/ RateEngage

SpecEngage == Init /\ [][NextEngage]_vars

\* a text or author that is absent, empty, or whitespace only
IsBlank(s) == s = Undefined \/ \A i \in 1..Len(s) : s[i] \in WhiteSpace

\* a stored string that is not empty and has no whitespace at either end
NonEmptyTrimmed(s) == s # <<>> /\ s[1] \notin WhiteSpace /\ s[Len(s)] \notin WhiteSpace

\* C4: a comment whose text is absent, empty or whitespace only is refused and
\* the comments container is left as it was; the answer is 400 (InvalidInput)
\* once the configuration is verified, which the handler does first. Every stored
\* comment has a non-empty text without surrounding whitespace.
C4_BlankCommentRejected ==
    [][req'.op = "POST comments" =>
          /\ IsBlank(req'.text)
             => /\ comments' = comments
                /\ res'.status # 201
                /\ verifyAndGetCosmosContainers(env) = <<"OK">> => res'.status = 400
          /\ \A c \in comments' : NonEmptyTrimmed(c.text)]_vars

\* C4 witness: with a comment stored, a whitespace-only text was refused with 400
C4_Witness ==
    /\ req.op = "POST comments" /\ req.text = <<"\t", " ">>
    /\ res.status = 400
    /\ \E c \in comments : c.text = <<"h", " ", "i">>

\* C9: a comment or rating accepted with an absent, empty or whitespace-only
\* author is stored with the author "anonymous", and no stored comment or rating
\* has the empty string as its author.
C9_AnonymousDefault ==
    /\ \A c \in comments : c.author # <<>>
    /\ \A d \in ratings : d.author # <<>>
    /\ (req.op = "POST comments" /\ res.status = 201 /\ IsBlank(req.author))
       => (res.comment.author = Anonymous /\ res.comment \in comments)
    /\ (req.op = "POST ratings" /\ res.status = 201 /\ IsBlank(req.author))
       => \E d \in ratings :
             /\ d.photoId = req.photoId /\ d.author = Anonymous
             /\ d.value = req.value

\* C9 witness: a comment sent without an author and a rating sent with a
\* whitespace-only author are both stored as "anonymous"
C9_Witness ==
    /\ req.op = "POST ratings" /\ res.status = 201 /\ req.author = <<"\t", " ">>
    /\ \E d \in ratings : d.author = Anonymous
    /\ \E c \in comments : c.author = Anonymous /\ c.text = <<"h", "i">>

(***************************************************************************)
(* SpecSummary: up to five ratings of one photo, and a photo with none     *)
(***************************************************************************)

SummaryAuthors == {<<"a">>, <<"b">>, <<"c">>, <<"d">>, <<"e">>}

SummaryValues == {JNumber(Num(3)), JNumber(Num(4)), JNumber(Num(5))}

RateSummary == \E a \in SummaryAuthors, v \in SummaryValues : PostRatings("p1", a, v)

SummarizeSummary == \E p \in PhotoIds : GetRatings(p)

NextSummary == RateSummary \/ SummarizeSummary

SpecSummary == Init /\ [][NextSummary]_vars

\* the sum of the (integer) values of a set of rating documents
RECURSIVE TotalOf(_)
TotalOf(docs) ==
    IF docs = {} THEN 0
    ELSE LET d == CHOOSE x \in docs : TRUE
         IN  d.value.v.num + TotalOf(docs \ {d})

\* how many of the documents hold the value n
Holding(docs, n) == Cardinality({d \in docs : d.value = JNumber(Num(n))})

\* C5: a rating summary returns as count the number of ratings stored for the
\* photo and as average their sum divided by that number, a finite number; with
\* no rating stored it returns count 0 and average 0; for the stored values
\* {5,5,4,3,3} it returns count 5 and average 4.
C5_CountAndMean ==
    (req.op = "GET ratings" /\ res.status = 200) =>
        LET docs == wherePhotoId(ratings, req.photoId)
        IN  /\ res.count = Cardinality(docs)
            /\ res.average.fin
            /\ res.average.num * res.count = TotalOf(docs) * res.average.den
            /\ res.count = 0 => res.average = Num(0)
            /\ (/\ Cardinality(docs) = 5 /\ Holding(docs, 5) = 2
                /\ Holding(docs, 4) = 1 /\ Holding(docs, 3) = 2)
               => (res.count = 5 /\ res.average = Num(4))

\* C5 witness: the summary of the stored values {5,5,4,3,3}
C5_Witness ==
    /\ req.op = "GET ratings" /\ res.status = 200 /\ req.photoId = "p1"
    /\ Holding(ratings, 5) = 2 /\ Holding(ratings, 4) = 1 /\ Holding(ratings, 3) = 2
    /\ res.count = 5 /\ res.average = Num(4)

\* C5 witness of the empty case, and of a mean that is not an integer
C5_WitnessEmpty ==
    /\ req.op = "GET ratings" /\ res.status = 200 /\ req.photoId = "p2"
    /\ res.count = 0 /\ res.average = Num(0)
    /\ \E d \in ratings : d.photoId = "p1"

(***************************************************************************)
(* SpecEdited: summaries over values that no validation has seen, in both  *)
(* implementations                                                         *)
(***************************************************************************)

EditedValues ==
    {JNumber(Num(0)), JNumber(Num(7)), JNumber(Num(-1)), JNumber(Frac(5, 2)),
     JNumber(Frac(9, 2)), JNumber(Frac(13, 4)), JNumber(Num(4)), JString(<<"x">>), JNull}

EditedAuthors == {<<"x">>, <<"y">>}

ValuesV2 == {JNumber(Num(3)), JNumber(Frac(5, 2)), JNumber(Num(9)), JString(<<"x">>)}

Edit == \E a \in EditedAuthors, v \in EditedValues : EditRating("p1", a, v)

SummarizeEdited == GetRatings("p1")

RateV2 ==
    \E v \in ValuesV2 :
        /\ PostRatingsV2("p1", <<"a">>, v)
        /\ Cardinality(ratingsV2') <= MaxRatings

SummarizeV2 == GetRatingsV2("p1")

NextEdited == Edit \/ SummarizeEdited \/ RateV2 \/ SummarizeV2

SpecEdited == Init /\ [][NextEdited]_vars

\* v rounded to the nearest integer, a tie going up, and clamped into 1..5, is k
NearestBucket(v, k) ==
    /\ k = 1 \/ 2 * v.num >= (2 * k - 1) * v.den
    /\ k = 5 \/ 2 * v.num < (2 * k + 1) * v.den

\* the summary answered has exactly the buckets 1..5, each holding the number of
\* counted values of the container `stored` that round into it, and together
\* holding count values
FiveBuckets(stored) ==
    LET counted == {d \in wherePhotoId(stored, req.photoId) : isFinite(Number(d.value))}
    IN  /\ DOMAIN res.distribution = OneToFive
        /\ \A k \in 1..5 :
              res.distribution[Num(k)] =
                  Num(Cardinality({d \in counted : NearestBucket(Number(d.value), k)}))
        /\ res.count = Cardinality(counted)

\* C6, src/index.js alone: every summary has the five buckets, filled by rounding
C6_FiveBucketsIndexJs ==
    (req.op = "GET ratings" /\ res.status = 200) => FiveBuckets(ratings)

\* C6: in every rating-summary implementation (src/index.js and part_002) the
\* distribution has exactly the buckets 1..5, every counted value is in the bucket
\* it rounds into (half up, clamped into 1..5), and the buckets sum to count.
C6_FiveBucketsEverywhere ==
    /\ (req.op = "GET ratings" /\ res.status = 200) => FiveBuckets(ratings)
    /\ (req.op = "GET ratings (part_002)" /\ res.status = 200) => FiveBuckets(ratingsV2)

(***************************************************************************)
(* SpecAuthor: normalizeAuthor applied to names around the 40 character    *)
(* cut: an affix of whitespace and letters, a filler, an affix.            *)
(***************************************************************************)

AffixChars == {"a", " ", "\t"}

Affixes == UNION {[1..n -> AffixChars] : n \in 0..MaxAffix}

filler(n) == [i \in 1..n |-> "x"]

FillerLengths == {0} \cup ((AuthorCap - 3)..AuthorCap)

LongAuthors ==
    {Undefined} \cup {pre \o filler(n) \o post : pre \in Affixes, post \in Affixes, n \in FillerLengths}

\* a request body carrying one of the names, nothing stored yet
InitAuthor ==
    /\ env = EnvOk
    /\ calls = <<>>
    /\ now = 0
    /\ nextId = 1
    /\ blobs = {}
    /\ photos = {}
    /\ comments = {}
    /\ ratings = {}
    /\ ratingsV2 = {}
    /\ accepted = {}
    /\ req \in {[op |-> "body", author |-> author] : author \in LongAuthors}
    /\ res = [status |-> 0]

\* the author name as the handlers compute it from req.body.author,
\* and the rating document id made from it
Normalize ==
    /\ req.op = "body"
    /\ req' = [op |-> "normalizeAuthor", author |-> req.author]
    /\ res' = [status |-> 0, author |-> normalizeAuthor(req.author),
               id |-> ratingDocId("p1", normalizeAuthor(req.author))]
    /\ UNCHANGED <<env, calls, now, nextId, blobs, photos, comments, ratings, ratingsV2, accepted>>

\* the name is sent again exactly as the first request stored it
Resubmit ==
    /\ req.op = "normalizeAuthor"
    /\ req' = [op |-> "resubmit", author |-> res.author, id |-> res.id]
    /\ res' = [status |-> 0, author |-> normalizeAuthor(res.author),
               id |-> ratingDocId("p1", normalizeAuthor(res.author))]
    /\ UNCHANGED <<env, calls, now, nextId, blobs, photos, comments, ratings, ratingsV2, accepted>>

NextAuthor == Normalize \/ Resubmit

SpecAuthor == InitAuthor /\ [][NextAuthor]_vars

\* C8: a normalized author name has no leading or trailing whitespace, each
\* whitespace run inside it is one space, and it is at most 40 characters long.
C8_NormalizedAuthorShape ==
    req.op = "normalizeAuthor" =>
        LET n == res.author
        IN  /\ Len(n) <= 40
            /\ n # <<>> => n[1] \notin WhiteSpace /\ n[Len(n)] \notin WhiteSpace
            /\ \A i \in 1..Len(n) : n[i] \in WhiteSpace => n[i] = " "
            /\ \A i \in 1..(Len(n) - 1) : ~(n[i] = " " /\ n[i + 1] = " ")

\* what does hold: the length cap, the collapsed runs and the trimmed start
C8_CappedAndCollapsed ==
    req.op = "normalizeAuthor" =>
        LET n == res.author
        IN  /\ Len(n) <= 40
            /\ n # <<>> /\ n[1] \notin WhiteSpace
            /\ \A i \in 1..Len(n) : n[i] \in WhiteSpace => n[i] = " "
            /\ \A i \in 1..(Len(n) - 1) : ~(n[i] = " " /\ n[i + 1] = " ")

(***************************************************************************)
(* SpecPhotos: photos are created from people strings and listed.          *)
(***************************************************************************)

PeopleChars == {"A", " ", ","}

Alice == <<"A", "l", "i", "c", "e">>
Bob == <<"B", "o", "b">>
Carol == <<"C", "a", "r", "o", "l">>

PeopleExample == Alice \o <<",", " ">> \o Bob \o <<" ", ",", ",", " ">> \o Carol

PeopleInputs ==
    {Undefined, PeopleExample, <<" ", "A", " ", "B", " ", ",", "\t", ",", "C", "\t">>}
        \cup UNION {[1..n -> PeopleChars] : n \in 0..MaxPeopleLen}

PhotoTexts ==
    {[title |-> Undefined, caption |-> <<>>, location |-> <<" ">>],
     [title |-> <<" ", "T", " ">>, caption |-> <<"c">>, location |-> <<"L", "\t">>]}

PhotoFiles == {Undefined, <<"a", " ", "b", ".", "j", "p", "g">>}

CreatePhoto ==
    \E file \in PhotoFiles, texts \in PhotoTexts, people \in PeopleInputs :
        /\ PostPhotos(file, [title |-> texts.title, caption |-> texts.caption,
                             location |-> texts.location, people |-> people])
        /\ Cardinality(photos') <= MaxPhotos
        /\ nextId' <= 2 * MaxPhotos + 1

ListPhotos == GetPhotos

NextPhotos == CreatePhoto \/ ListPhotos

SpecPhotos == Init /\ [][NextPhotos]_vars

\* the positions of s where a name starts: a character that is neither
\* whitespace nor a comma, with only whitespace between it and the comma
\* (or the start of s) before it
NameStarts(s) ==
    {i \in 1..Len(s) :
        /\ s[i] \notin WhiteSpace \cup {","}
        /\ \A j \in 1..(i - 1) :
               (\A k \in j..(i - 1) : s[k] # ",") => s[j] \in WhiteSpace}

\* the position where the name starting at i ends: the last character that
\* is not whitespace before the next comma (or the end of s)
NameEnd(s, i) ==
    CHOOSE j \in i..Len(s) :
        /\ \A k \in i..j : s[k] # ","
        /\ s[j] \notin WhiteSpace
        /\ \A m \in (j + 1)..Len(s) :
               (\A k \in i..m : s[k] # ",") => s[m] \in WhiteSpace

NamesOf(s, people) ==
    /\ Len(people) = Cardinality(NameStarts(s))
    /\ \A i \in NameStarts(s) :
           people[Cardinality({x \in NameStarts(s) : x <= i})] = SubSeq(s, i, NameEnd(s, i))

\* C10: createPhoto stores the people string as the list of its comma
\* separated names, each trimmed, the empty ones dropped, in their order; an
\* absent or blank string gives the empty list and no stored name is empty.
C10_PeopleList ==
    /\ (req.op = "POST photos" /\ res.status = 201) =>
           LET input == IF req.people = Undefined THEN <<>> ELSE req.people
           IN  /\ res.photo \in photos
               /\ NamesOf(input, res.photo.people)
               /\ IsBlank(input) => res.photo.people = <<>>
               /\ req.people = PeopleExample => res.photo.people = <<Alice, Bob, Carol>>
    /\ \A p \in photos : \A i \in 1..Len(p.people) :
           /\ NonEmptyTrimmed(p.people[i])
           /\ \A k \in 1..Len(p.people[i]) : p.people[i][k] # ","

C10_Witness ==
    /\ req.op = "POST photos" /\ res.status = 201
    /\ req.people = PeopleExample
    /\ res.photo.people = <<Alice, Bob, Carol>>
    /\ res.photo \in photos

C10_WitnessBlank ==
    /\ req.op = "POST photos" /\ res.status = 201
    /\ req.people = <<" ", ",">>
    /\ \E p \in photos : p = res.photo /\ Len(p.people) = 0

(***************************************************************************)
(* SpecAll: the six public operations of src/index.js together.  A photo   *)
(* gets the second or third uuid of a run, so the photo ids of the         *)
(* requests are sometimes those of a stored photo and sometimes not.       *)
(***************************************************************************)

AllPhotoIds == {2, 3}

AllAuthors == {<<" ", "a">>}

AllTexts == {<<" ">>, <<"h", "i">>}

AllValues == {JNumber(Num(3)), JNumber(Num(9))}

AllFile == <<"a", ".", "j", "p", "g">>

AllBody == [title |-> <<"T">>, caption |-> Undefined, location |-> <<>>, people |-> <<"A">>]

CreatePhotoAll ==
    /\ PostPhotos(AllFile, AllBody)
    /\ Cardinality(photos') <= MaxPhotos
    /\ nextId' <= 2 * MaxPhotos + MaxComments + 1

ListPhotosAll == GetPhotos

CommentAll ==
    \E p \in AllPhotoIds, t \in AllTexts :
        /\ PostComments(p, <<"a">>, t)
        /\ Cardinality(comments') <= MaxComments

ListCommentsAll == \E p \in AllPhotoIds : GetComments(p)

RateAll ==
    \E p \in AllPhotoIds, a \in AllAuthors, v \in AllValues :
        /\ PostRatings(p, a, v)
        /\ Cardinality(ratings') <= MaxRatings

SummarizeAll == \E p \in AllPhotoIds : GetRatings(p)

NextAll ==
    \/ CreatePhotoAll
    \/ ListPhotosAll
    \/ CommentAll
    \/ ListCommentsAll
    \/ RateAll
    \/ SummarizeAll

SpecAll == Init /\ [][NextAll]_vars

\* a photo document with this id is stored
PhotoExists(photoId) == \E p \in photos : p.id = photoId

\* C11: a comment with a text and a rating with a value in 1..5 succeed and are
\* persisted once the configuration is verified, whether or not a photo document
\* with the photo id of the request exists: the photos container is not consulted.
C11_NoReferentialIntegrity ==
    [][/\ (/\ req'.op = "POST comments"
           /\ verifyAndGetCosmosContainers(env) = <<"OK">>
           /\ ~IsBlank(req'.text))
          => /\ res'.status = 201
             /\ res'.comment \in comments' \ comments
             /\ res'.comment.photoId = req'.photoId
       /\ (/\ req'.op = "POST ratings"
           /\ verifyAndGetCosmosContainers(env) = <<"OK">>
           /\ req'.value = JNumber(Num(3)))
          => /\ res'.status = 201
             /\ \E d \in ratings' :
                   /\ d.photoId = req'.photoId
                   /\ d.author = <<"a">>
                   /\ d.value = JNumber(Num(3))
                   /\ d \in ratings \/ Cardinality(ratings') = Cardinality(ratings) + 1
    ]_vars

\* a comment was just stored for a photo id that no photo has, while another
\* photo is stored, and a rating is stored for a missing photo as well
C11_Witness ==
    /\ req.op = "POST comments" /\ res.status = 201
    /\ photos # {} /\ ~PhotoExists(req.photoId)
    /\ res.comment \in comments
    /\ \E d \in ratings : ~PhotoExists(d.photoId)

\* a comment was just stored for the id of a stored photo
C11_WitnessKnownPhoto ==
    /\ req.op = "POST comments" /\ res.status = 201
    /\ PhotoExists(req.photoId)
    /\ res.comment \in comments

\* C15: no operation removes or changes a stored photo or comment; a photo
\* document is only added by createPhoto and a comment document only by
\* addComment, each under an id no stored document of its container has.
C15_PhotosAndCommentsImmutable ==
    [][/\ photos \subseteq photos'
       /\ comments \subseteq comments'
       /\ \A d \in photos' \ photos :
             req'.op = "POST photos" /\ \A p \in photos : p.id # d.id
       /\ \A d \in comments' \ comments :
             req'.op = "POST comments" /\ \A c \in comments : c.id # d.id
    ]_vars

\* a photo and two comments are stored and a rating was accepted after them
C15_Witness ==
    /\ req.op = "POST ratings" /\ res.status = 201
    /\ Cardinality(photos) = 1
    /\ Cardinality(comments) = 2
    /\ ratings # {}

(***************************************************************************)
(* Configuration errors, checked under SpecEngage                          *)
(***************************************************************************)

\* the element of the Cosmos configuration that is missing or unreachable in a
\* deployment, first in the order credentials, database, photos, comments, ratings
ConfigCause(e) ==
    IF e.COSMOS_ENDPOINT = "" \/ e.COSMOS_KEY = "" THEN "credentials"
    ELSE IF e.COSMOS_DB_NAME = "" \/ ~e.dbRead THEN "database"
    ELSE IF e.COSMOS_CONTAINER = "" \/ ~e.photosRead THEN "photos collection"
    ELSE IF e.COSMOS_COMMENT_CONTAINER = "" \/ ~e.commentsRead THEN "comments collection"
    ELSE IF e.COSMOS_RATINGS_CONTAINER = "" \/ ~e.ratingsRead THEN "ratings collection"
    ELSE "none"

\* the request was answered with the error of a failed verification
VerificationFailed ==
    /\ req.op \in {"GET comments", "POST comments", "POST ratings"}
    /\ res.status = 500
    /\ res.message = verifyAndGetCosmosContainers(env)

\* C12: the error of a failed verification names the one element that is
\* missing or unreachable: every deployment that gives the same error fails for
\* the same one of the five causes.
C12_ErrorNamesTheElement ==
    VerificationFailed =>
        \A e \in Envs :
            verifyAndGetCosmosContainers(e) = res.message => ConfigCause(e) = ConfigCause(env)

\* what does hold: the errors tell the causes apart once the endpoint, the key
\* and the database name are all set
C12_DistinguishedOnceNamed ==
    (/\ VerificationFailed
     /\ env.COSMOS_ENDPOINT # "" /\ env.COSMOS_KEY # "" /\ env.COSMOS_DB_NAME # "")
        => \A e \in Envs :
               verifyAndGetCosmosContainers(e) = res.message => ConfigCause(e) = ConfigCause(env)

(***************************************************************************)
(* SpecConcurrent: POST ratings and POST comments of src/index.js handled  *)
(* concurrently.  A handler runs from one await to the next in one step;   *)
(* the steps of different requests interleave in every order.              *)
(***************************************************************************)

ConcurrentAuthors == {<<"a">>, <<" ", "a">>}

ConcurrentValues == {JNumber(Num(3)), JNumber(Num(5)), JNumber(Num(9))}

ConcurrentTexts == {<<"h", "i">>, <<" ">>}

\* a request as it arrives: nothing of the handler has run
received(op, photoId, author, body) ==
    [op |-> op, pc |-> "verify", photoId |-> photoId, author |-> author, body |-> body,
     doc |-> Undefined, order |-> 0, res |-> [status |-> 0]]

\* the number of writes the store has applied for the requests
writes == Cardinality({i \in DOMAIN calls : calls[i].order > 0})

\* a POST ratings request arrives
ReceiveRating ==
    \E a \in ConcurrentAuthors, v \in ConcurrentValues :
        /\ Len(calls) < MaxCalls
        /\ calls' = Append(calls, received("POST ratings", "p1", a, v))
        /\ UNCHANGED <<env, now, nextId, blobs, photos, comments, ratings, ratingsV2,
                       accepted, req, res>>

\* a POST comments request arrives
ReceiveComment ==
    \E t \in ConcurrentTexts :
        /\ Len(calls) < MaxCalls
        /\ calls' = Append(calls, received("POST comments", "p1", <<"a">>, t))
        /\ UNCHANGED <<env, now, nextId, blobs, photos, comments, ratings, ratingsV2,
                       accepted, req, res>>

\* POST ratings from the verification to the call of upsert
BeginRating(i) ==
    LET c == calls[i]
        verified == verifyAndGetCosmosContainers(env)
        author == normalizeAuthor(c.author)
        value == Number(c.body)
        doc == [id |-> ratingDocId(c.photoId, author), photoId |-> c.photoId,
                author |-> author, value |-> JNumber(value), createdAt |-> now]
    IN  /\ c.op = "POST ratings" /\ c.pc = "verify"
        /\ calls' = [calls EXCEPT ![i] =
              IF verified # <<"OK">>
              THEN [c EXCEPT !.pc = "done", !.res = serverError(verified)]
              ELSE IF ~isInteger(value) \/ Less(value, Num(1)) \/ Greater(value, Num(5))
              THEN [c EXCEPT !.pc = "done",
                             !.res = [status |-> 400,
                                      message |-> <<"Rating value must be an integer 1-5.">>]]
              ELSE [c EXCEPT !.pc = "upsert", !.doc = doc]]
        /\ UNCHANGED <<env, now, nextId, blobs, photos, comments, ratings, ratingsV2,
                       accepted, req, res>>

\* the store applies the upsert of the request
UpsertRating(i) ==
    LET c == calls[i]
    IN  /\ c.op = "POST ratings" /\ c.pc = "upsert"
        /\ ratings' = upsert(ratings, c.doc)
        /\ accepted' = remember(accepted, c.doc.photoId, c.doc.author, Number(c.doc.value))
        /\ calls' = [calls EXCEPT ![i] = [c EXCEPT !.pc = "query", !.order = writes + 1]]
        /\ UNCHANGED <<env, now, nextId, blobs, photos, comments, ratingsV2, req, res>>

\* the store answers the query of the request, and the handler responds
QueryRating(i) ==
    LET c == calls[i]
        resources == fetchAll(wherePhotoId(ratings, c.photoId))
        values == finiteValues(resources)
        count == Len(values)
        average == averageOf(values)
    IN  /\ c.op = "POST ratings" /\ c.pc = "query"
        /\ calls' = [calls EXCEPT ![i] =
              [c EXCEPT !.pc = "done",
                        !.res = [status |-> 201, message |-> <<"Rating saved">>,
                                 photoId |-> c.photoId, average |-> average,
                                 count |-> count]]]
        /\ UNCHANGED <<env, now, nextId, blobs, photos, comments, ratings, ratingsV2,
                       accepted, req, res>>

\* POST comments from the verification to the call of create
BeginComment(i) ==
    LET c == calls[i]
        verified == verifyAndGetCosmosContainers(env)
        text == commentText(c.body)
        author == normalizeAuthor(c.author)
        commentDoc == [id |-> nextId, photoId |-> c.photoId, author |-> author,
                       text |-> text, createdAt |-> now]
    IN  /\ c.op = "POST comments" /\ c.pc = "verify"
        /\ IF verified # <<"OK">>
           THEN /\ calls' = [calls EXCEPT ![i] =
                               [c EXCEPT !.pc = "done", !.res = serverError(verified)]]
                /\ UNCHANGED nextId
           ELSE IF text = <<>>
           THEN /\ calls' = [calls EXCEPT ![i] =
                               [c EXCEPT !.pc = "done",
                                         !.res = [status |-> 400,
                                                  message |-> <<"Comment text is required.">>]]]
                /\ UNCHANGED nextId
           ELSE /\ calls' = [calls EXCEPT ![i] = [c EXCEPT !.pc = "create", !.doc = commentDoc]]
                /\ nextId' = nextId + 1
        /\ UNCHANGED <<env, now, blobs, photos, comments, ratings, ratingsV2, accepted,
                       req, res>>

\* the store applies the create of the request, and the handler responds
CreateComment(i) ==
    LET c == calls[i]
    IN  /\ c.op = "POST comments" /\ c.pc = "create"
        /\ comments' = create(comments, c.doc)
        /\ calls' = [calls EXCEPT ![i] =
              [c EXCEPT !.pc = "done", !.order = writes + 1,
                        !.res = [status |-> 201, message |-> <<"Comment added">>,
                                 comment |-> c.doc]]]
        /\ UNCHANGED <<env, now, nextId, blobs, photos, ratings, ratingsV2, accepted,
                       req, res>>

NextConcurrent ==
    \/ ReceiveRating
    \/ ReceiveComment
    \/ \E i \in DOMAIN calls : BeginRating(i)
    \/ \E i \in DOMAIN calls : UpsertRating(i)
    \/ \E i \in DOMAIN calls : QueryRating(i)
    \/ \E i \in DOMAIN calls : BeginComment(i)
    \/ \E i \in DOMAIN calls : CreateComment(i)

SpecConcurrent == Init /\ [][NextConcurrent]_vars

\* the request is answered with 201
Completed(i, op) == calls[i].op = op /\ calls[i].pc = "done" /\ calls[i].res.status = 201

\* C13: when two rating requests of one author for one photo are both
\* completed, in whatever order their steps ran, one rating document is stored
\* for that photo and author and its value is the one of the request the store
\* wrote later; when two comment requests are both completed, both comments
\* are stored, as two documents.
C13_ConcurrentWrites ==
    \A i \in DOMAIN calls, j \in DOMAIN calls :
        /\ (/\ i # j
            /\ Completed(i, "POST ratings") /\ Completed(j, "POST ratings")
            /\ calls[i].order > calls[j].order
            /\ \A k \in DOMAIN calls :
                  calls[k].op = "POST ratings" => calls[k].order <= calls[i].order)
           => LET docs == {d \in ratings : d.photoId = "p1" /\ d.author = <<"a">>}
              IN  /\ Cardinality(docs) = 1
                  /\ \A d \in docs : d.value = calls[i].body
                  /\ \A d \in docs : d.value \in {calls[i].body, calls[j].body}
        /\ (/\ i # j
            /\ Completed(i, "POST comments") /\ Completed(j, "POST comments"))
           => /\ calls[i].res.comment \in comments
              /\ calls[j].res.comment \in comments
              /\ calls[i].res.comment.id # calls[j].res.comment.id
              /\ Cardinality(comments) >= 2

\* two rating requests with different values are completed, and the store
\* wrote the one that arrived first after the one that arrived second
C13_Witness ==
    /\ Len(calls) >= 2
    /\ Completed(1, "POST ratings") /\ Completed(2, "POST ratings")
    /\ calls[1].body # calls[2].body
    /\ calls[1].order > calls[2].order
    /\ \E d \in ratings : d.value = calls[1].body

\* two comment requests are completed, the second created before the first
C13_WitnessComments ==
    /\ Len(calls) >= 2
    /\ Completed(1, "POST comments") /\ Completed(2, "POST comments")
    /\ calls[1].order > calls[2].order
    /\ Cardinality(comments) = 2

(***************************************************************************)
(* The aggregate returned by POST ratings, checked under Spec              *)
(***************************************************************************)

\* C14: an accepted rating is answered with the count and average of the
\* photo's ratings as they are after its own write: the count is at least 1 and
\* is the number of rating documents then stored for the photo, and a summary
\* asked for the same photo as the next request returns the same count and average.
C14_ReturnsFreshAggregate ==
    [][/\ (req'.op = "POST ratings" /\ res'.status = 201)
          => /\ res'.count >= 1
             /\ res'.count = Cardinality({d \in ratings' : d.photoId = req'.photoId})
             /\ \E d \in ratings' :
                   d.photoId = req'.photoId /\ d.value = JNumber(Number(req'.value))
       /\ (/\ req.op = "POST ratings" /\ res.status = 201
           /\ req'.op = "GET ratings" /\ req'.photoId = req.photoId)
          => /\ res'.status = 200
             /\ res'.count = res.count
             /\ res'.average = res.average
    ]_vars

\* a rating of 5 was just accepted for a photo that already had a rating of 3
\* by another author: the answer counts 2 and averages 4
C14_Witness ==
    /\ req.op = "POST ratings" /\ res.status = 201
    /\ req.value = JNumber(Num(5))
    /\ res.count = 2 /\ res.average = Num(4)
    /\ Cardinality({d \in ratings : d.photoId = req.photoId}) = 2

(***************************************************************************)
(* Authors and rating documents: C16 under Spec, C17 under SpecAuthor      *)
(***************************************************************************)

\* C16: two authors with different normalized names who both had a rating
\* accepted for a photo have two rating documents there, under different
\* ids, each holding its own author's last accepted value.
C16_DistinctAuthorsDistinctDocs ==
    \A a \in accepted, b \in accepted :
        (a.photoId = b.photoId /\ a.author # b.author)
            => /\ ratingDocId(a.photoId, a.author) # ratingDocId(b.photoId, b.author)
               /\ \E da \in ratings, db \in ratings :
                     /\ da.id # db.id
                     /\ da.photoId = a.photoId /\ da.author = a.author
                     /\ Number(da.value) = a.value
                     /\ db.photoId = b.photoId /\ db.author = b.author
                     /\ Number(db.value) = b.value

\* no other author accepted for the photo differs from this one only in
\* characters outside [a-zA-Z0-9._-]
AloneUnderId(a) ==
    \A c \in accepted :
        (c.photoId = a.photoId /\ c.author # a.author)
            => replaceUnsafe(c.author) # replaceUnsafe(a.author)

\* what does hold: authors whose names still differ once the characters
\* outside [a-zA-Z0-9._-] are replaced keep their own documents
C16_DistinctSafeAuthors ==
    \A a \in accepted, b \in accepted :
        (/\ a.photoId = b.photoId /\ a.author # b.author
         /\ AloneUnderId(a) /\ AloneUnderId(b))
            => \E da \in ratings, db \in ratings :
                  /\ da.id # db.id
                  /\ da.photoId = a.photoId /\ da.author = a.author
                  /\ Number(da.value) = a.value
                  /\ db.photoId = b.photoId /\ db.author = b.author
                  /\ Number(db.value) = b.value

\* C17: a name sent again as it was stored is normalized to itself, and gets
\* the rating document id it had.
C17_NormalizeAuthorIdempotent ==
    req.op = "resubmit" => res.author = req.author /\ res.id = req.id

\* what does hold: the name sent again gets the same rating document id
C17_SameDocumentId ==
    req.op = "resubmit" => res.id = req.id

====
